---- MODULE Spec2Model ----
(***************************************************************************)
(* Model of the authenticated backend of code-explainer-pro:               *)
(*   backend/auth.js   - registerUser, loginUser, verifyToken over the     *)
(*                       users.json file                                   *)
(*   backend/server.js - the express routes over user_history.json, the    *)
(*                       external generation call, the OCR step and the    *)
(*                       multer upload directory                           *)
(* Node runs every handler to completion between two awaits, so each       *)
(* action below is the code of one handler from one await to the next.     *)
(*                                                                         *)
(* Left out: the express-rate-limit middleware, the prompt texts, and the  *)
(* language, mode and explanation fields of a history record, which the    *)
(* handlers copy from the request and the generation call unread.          *)
(***************************************************************************)
EXTENDS Integers, Sequences, FiniteSets, TLC

VARIABLES
    usersFile,    \* users.json: [kind, data], data a sequence of user records
    historyFile,  \* user_history.json: [kind, data], data a sequence of history records
    now,          \* the wall clock, in hours
    tokens,       \* the tokens loginUser has handed out (clients may present any of them)
    nextId,       \* the number of uuidv4() ids drawn so far
    pending,      \* the requests suspended at an await, by slot
    uploads,      \* the files in the uploads/ directory
    unlinking,    \* the files with an fs.unlink queued and not yet carried out
    nextFile,     \* the number of upload files multer has named so far
    last          \* the response of the request answered last (observation only)

vars == <<usersFile, historyFile, now, tokens, nextId, pending, uploads, unlinking,
          nextFile, last>>

----------------------------------------------------------------------------
(* Bounds of the model *)

MaxTime == 14
TickStep == 7
MaxTokens == 2
MaxRecords == 2
MaxInflight == 2
MaxFiles == 1
MaxOther == 1

(* The 12 hours of jwt.sign(..., { expiresIn: "12h" }) *)
TTL == 12

Emails == {"a@x.com", "A@x.com"}
NoPassword == "<undefined>"
Passwords == {"pw1", "pw2"}
RegPasswords == {"pw1"}
Salts == {"s1"}
Codes == {<<>>, <<" ">>, <<"x">>}

SECRET_KEY == "fallback_secret_change_in_production"
OtherKey == "some_other_secret"

----------------------------------------------------------------------------
(* Files *)

JsonFile(data) == [kind |-> "json", data |-> data]
AbsentFile == [kind |-> "absent", data |-> <<>>]
CorruptFile == [kind |-> "corrupt", data |-> <<>>]

Range(s) == {s[i] : i \in 1..Len(s)}

(* JSON.parse(fs.readFileSync(file)): throws unless the file holds an array *)
ParseFile(file) == [ok |-> file.kind = "json", data |-> file.data]

(* readUsers: a missing file reads as [], and so does one that cannot be   *)
(* read or parsed (the catch)                                              *)
readUsers(file) == IF ParseFile(file).ok THEN file.data ELSE <<>>

(* readUsers writes "[]" to a missing file before it returns               *)
readUsersEffect(file) == IF file.kind = "absent" THEN JsonFile(<<>>) ELSE file

(* saveUsers: the whole file is replaced *)
saveUsers(users) == JsonFile(users)

----------------------------------------------------------------------------
(* bcrypt *)

hashSync(password, salt) == [salt |-> salt, digest |-> <<salt, password>>]

compareSync(password, hash) == hash.digest = <<hash.salt, password>>

(* users.find(u => u.email === email): the first record of that email *)
HasUser(users, email) == \E i \in 1..Len(users) : users[i].email = email

FindUser(users, email) ==
    users[CHOOSE i \in 1..Len(users) :
            /\ users[i].email = email
            /\ \A j \in 1..(i - 1) : users[j].email # email]

----------------------------------------------------------------------------
(* jsonwebtoken *)

NoToken == [email |-> "", iat |-> 0, exp |-> 0, sig |-> "none"]

(* a token for a registered email signed with a key that is not SECRET_KEY *)
ForgedToken == [email |-> "a@x.com", iat |-> 0, exp |-> MaxTime + TTL + 1, sig |-> OtherKey]

(* jwt.sign({ email }, SECRET_KEY, { expiresIn: "12h" }) at clock t *)
jwtSign(email, t) == [email |-> email, iat |-> t, exp |-> t + TTL, sig |-> SECRET_KEY]

NoUser == [ok |-> FALSE, email |-> ""]

(* verifyToken that reads the payload without checking the signature *)
verifyTokenAnyKey(token, t) ==
    IF t < token.exp THEN [ok |-> TRUE, email |-> token.email] ELSE NoUser

(* verifyToken that never looks at exp *)
verifyTokenNoExpiry(token, t) ==
    IF token.sig = SECRET_KEY THEN [ok |-> TRUE, email |-> token.email] ELSE NoUser

(* verifyToken: jwt.verify throws on a bad signature and once the clock    *)
(* has reached exp; the catch turns every throw into null                  *)
verifyToken(token, t) ==
    IF token.sig = SECRET_KEY /\ t < token.exp
    THEN [ok |-> TRUE, email |-> token.email]
    ELSE NoUser

(* what a client can put in the Authorization header *)
Presentable == tokens \cup {ForgedToken, NoToken}

----------------------------------------------------------------------------
(* Responses *)

NoFile == 0

Response(op, email, status, msg) ==
    [op |-> op, email |-> email, status |-> status, msg |-> msg,
     token |-> NoToken, history |-> <<>>, file |-> NoFile, ocr |-> "none",
     peers |-> {}]

(* a request suspended at an await: the endpoint, the email of the token   *)
(* it verified, where it waits ("ocr" or "gen"), its code, its upload, and *)
(* the ids other /explain requests stored while it waited (observation)    *)
Idle == [ep |-> "idle", email |-> "", stage |-> "none", code |-> <<>>, file |-> NoFile,
         peers |-> {}]

Free == {s \in 1..MaxInflight : pending[s] = Idle}

(* the slot a new suspended request takes *)
FreeSlot == CHOOSE s \in Free : \A r \in Free : s <= r

InFlight(ep) == {s \in 1..MaxInflight : pending[s].ep = ep}

(* the suspended requests of the endpoints that keep no history *)
InFlightOther == {s \in 1..MaxInflight : pending[s].ep \notin {"idle", "POST /explain"}}

----------------------------------------------------------------------------
(* POST /register, POST /login *)

(* registerUser without its look at the stored emails *)
registerUserNoCheck(users, email, password, salt) ==
    IF password = NoPassword
    THEN [msg |-> "Registration failed", users |-> users, saved |-> FALSE]
    ELSE [msg |-> "User registered successfully",
          users |-> Append(users, [email |-> email, password |-> hashSync(password, salt)]),
          saved |-> TRUE]

(* registerUser on the list readUsers returned: the message it answers     *)
(* with, the list it holds at the end, and whether it called saveUsers     *)
registerUser(users, email, password, salt) ==
    IF HasUser(users, email)
    THEN [msg |-> "User already exists", users |-> users, saved |-> FALSE]
    ELSE IF password = NoPassword
         THEN [msg |-> "Registration failed", users |-> users, saved |-> FALSE]
         ELSE [msg |-> "User registered successfully",
               users |-> Append(users, [email |-> email, password |-> hashSync(password, salt)]),
               saved |-> TRUE]

Register(email, password, salt) ==
    LET r == registerUser(readUsers(usersFile), email, password, salt) IN
    /\ usersFile' = IF r.saved THEN saveUsers(r.users) ELSE readUsersEffect(usersFile)
    /\ last' = Response("POST /register", email, 200, r.msg)
    /\ UNCHANGED <<historyFile, now, tokens, nextId, pending, uploads, unlinking, nextFile>>

(* loginUser without its bcrypt.compareSync *)
loginUserNoCompare(users, email, password, t) ==
    IF ~HasUser(users, email)
    THEN [msg |-> "User not found", token |-> NoToken]
    ELSE [msg |-> "", token |-> jwtSign(email, t)]

(* loginUser on the list readUsers returned, at clock t *)
loginUser(users, email, password, t) ==
    IF ~HasUser(users, email)
    THEN [msg |-> "User not found", token |-> NoToken]
    ELSE IF password = NoPassword
         THEN [msg |-> "Login failed", token |-> NoToken]
         ELSE IF ~compareSync(password, FindUser(users, email).password)
              THEN [msg |-> "Invalid password", token |-> NoToken]
              ELSE [msg |-> "", token |-> jwtSign(email, t)]

Login(email, password) ==
    LET r == loginUser(readUsers(usersFile), email, password, now) IN
    /\ r.token # NoToken => (r.token \in tokens \/ Cardinality(tokens) < MaxTokens)
    /\ usersFile' = readUsersEffect(usersFile)
    /\ tokens' = IF r.token # NoToken THEN tokens \cup {r.token} ELSE tokens
    /\ last' = [Response("POST /login", email, 200, r.msg) EXCEPT !.token = r.token]
    /\ UNCHANGED <<historyFile, now, nextId, pending, uploads, unlinking, nextFile>>

(* the clock moves on *)
Tick ==
    /\ now + TickStep <= MaxTime
    /\ now' = now + TickStep
    /\ UNCHANGED <<usersFile, historyFile, tokens, nextId, pending, uploads, unlinking,
                   nextFile, last>>


----------------------------------------------------------------------------
(* History *)

IsSpace(c) == c = " "

RECURSIVE TrimStart(_)
TrimStart(code) ==
    IF code # <<>> /\ IsSpace(Head(code)) THEN TrimStart(Tail(code)) ELSE code

RECURSIVE TrimEnd(_)
TrimEnd(code) ==
    IF code # <<>> /\ IsSpace(code[Len(code)])
    THEN TrimEnd(SubSeq(code, 1, Len(code) - 1))
    ELSE code

(* String.prototype.trim *)
Trim(code) == TrimEnd(TrimStart(code))

Ids(data) == {data[i].id : i \in 1..Len(data)}

HistoryRecord(id, email, code, t) ==
    [id |-> id, email |-> email, code |-> code, createdAt |-> t]

(* a write that keeps nothing of what the file held *)
UnshiftDropping(data, rec) == <<rec>>

(* histories.push(rec): the record put at the end *)
Push(data, rec) == Append(data, rec)

(* histories.unshift(rec) *)
Unshift(data, rec) == <<rec>> \o data

(* the unfiltered list of the variant without authentication *)
FilterAll(data, email) == data

(* histories.filter((h) => h.email === user.email) *)
FilterOwn(data, email) == SelectSeq(data, LAMBDA h : h.email = email)

(* the wipe of the variant without authentication *)
FilterNone(data, email) == <<>>

(* histories.filter((h) => h.email !== user.email) *)
FilterOthers(data, email) == SelectSeq(data, LAMBDA h : h.email # email)

(* express answers a handler that threw with 500 *)
Uncaught(op, email) == Response(op, email, 500, "Internal Server Error")

Unauthorized(op) == Response(op, "", 403, "Unauthorized")

(* GET /history *)
GetHistory(token) ==
    LET user == verifyToken(token, now)
        file == ParseFile(historyFile)
    IN
    /\ last' = IF ~user.ok THEN Unauthorized("GET /history")
               ELSE IF ~file.ok THEN Uncaught("GET /history", user.email)
               ELSE [Response("GET /history", user.email, 200, "")
                        EXCEPT !.history = FilterOwn(file.data, user.email)]
    /\ UNCHANGED <<usersFile, historyFile, now, tokens, nextId, pending, uploads,
                   unlinking, nextFile>>

(* DELETE /history *)
DeleteHistory(token) ==
    LET user == verifyToken(token, now)
        file == ParseFile(historyFile)
    IN
    /\ historyFile' = IF user.ok /\ file.ok
                      THEN JsonFile(FilterOthers(file.data, user.email))
                      ELSE historyFile
    /\ last' = IF ~user.ok THEN Unauthorized("DELETE /history")
               ELSE IF ~file.ok THEN Uncaught("DELETE /history", user.email)
               ELSE Response("DELETE /history", user.email, 200,
                             "History cleared successfully")
    /\ UNCHANGED <<usersFile, now, tokens, nextId, pending, uploads, unlinking, nextFile>>

----------------------------------------------------------------------------
(* POST /explain *)

(* up to the await of callOpenRouter *)
Explain(token, code) ==
    LET user == verifyToken(token, now) IN
    IF ~user.ok
    THEN /\ last' = Unauthorized("POST /explain")
         /\ UNCHANGED <<usersFile, historyFile, now, tokens, nextId, pending, uploads,
                        unlinking, nextFile>>
    ELSE IF Trim(code) = <<>>
    THEN /\ last' = Response("POST /explain", user.email, 400, "Code is required")
         /\ UNCHANGED <<usersFile, historyFile, now, tokens, nextId, pending, uploads,
                        unlinking, nextFile>>
    ELSE /\ Free # {}
         /\ nextId + Cardinality(InFlight("POST /explain")) < MaxRecords
         /\ pending' = [pending EXCEPT ![FreeSlot] =
                           [Idle EXCEPT !.ep = "POST /explain", !.email = user.email,
                                        !.stage = "gen", !.code = code]]
         /\ UNCHANGED <<usersFile, historyFile, now, tokens, nextId, uploads, unlinking,
                        nextFile, last>>

(* a handler that writes the record whether or not the call returned *)
AppendAnyway(ok) == TRUE

(* the record is written inside the try, after the await returned *)
AppendsHistory(ok) == ok

(* callOpenRouter returned (ok) or threw (~ok) for the /explain request of slot s *)
ExplainDone(s, ok) ==
    LET req == pending[s]
        file == ParseFile(historyFile)
        rec == HistoryRecord(nextId + 1, req.email, req.code, now)
        stored == AppendsHistory(ok) /\ file.ok
        done == [Response("POST /explain", req.email, 200, "explanation")
                    EXCEPT !.peers = req.peers]
        failed == [Response("POST /explain", req.email, 500, "Failed to generate explanation")
                    EXCEPT !.peers = req.peers]
    IN
    /\ req.ep = "POST /explain"
    /\ historyFile' = IF stored THEN JsonFile(Unshift(file.data, rec)) ELSE historyFile
    /\ nextId' = IF stored THEN nextId + 1 ELSE nextId
    /\ pending' = [r \in 1..MaxInflight |->
                     IF r = s THEN Idle
                     ELSE IF stored /\ pending[r].ep = "POST /explain"
                          THEN [pending[r] EXCEPT !.peers = @ \cup {rec.id}]
                          ELSE pending[r]]
    /\ last' = IF ok /\ file.ok THEN done ELSE failed
    /\ UNCHANGED <<usersFile, now, tokens, uploads, unlinking, nextFile>>


----------------------------------------------------------------------------
(* POST /explain-line, /convert, /optimize, /prompt-to-code, /fill-code *)

JsonEndpoints == {"POST /explain-line", "POST /convert", "POST /optimize",
                  "POST /prompt-to-code", "POST /fill-code"}

ImageEndpoints == {"POST /convert-image", "POST /optimize-image", "POST /fill-image"}

(* the bodies a client sends to the endpoint: code (or prompt), lineNumber *)
Bodies(ep) ==
    IF ep = "POST /explain-line"
    THEN {<<c, n>> : c \in {<<>>, <<"x">>}, n \in {0, 1, 2}}
    ELSE {<<c, 1>> : c \in {<<>>, <<"x">>}}

(* the number of lines of String(code).split(/\r?\n/): the codes of the    *)
(* model hold no line break                                                *)
LineCount(code) == 1

(* the 400 answer of the endpoint to this body, "" when the body passes *)
Rejects(ep, code, line) ==
    IF ep = "POST /explain-line"
    THEN IF code = <<>> \/ line = 0 THEN "Missing code or lineNumber"
         ELSE IF line - 1 < 0 \/ line - 1 >= LineCount(code) THEN "Invalid lineNumber"
         ELSE ""
    ELSE IF code = <<>>
         THEN IF ep = "POST /prompt-to-code" THEN "Prompt is required" ELSE "Code is required"
         ELSE ""

(* the error field of the endpoint's 500 answer *)
FailMsg(ep) ==
    CASE ep = "POST /explain-line" -> "Failed to explain line"
      [] ep = "POST /convert" -> "Conversion failed"
      [] ep = "POST /optimize" -> "Optimization failed"
      [] ep = "POST /prompt-to-code" -> "Failed to generate code"
      [] ep = "POST /fill-code" -> "Failed to fill code"
      [] ep = "POST /convert-image" -> "Convert image failed"
      [] ep = "POST /optimize-image" -> "Optimize image failed"
      [] ep = "POST /fill-image" -> "Fill image failed"

(* a JSON generation endpoint, up to the await of callOpenRouter *)
Generate(ep, token, code, line) ==
    LET user == verifyToken(token, now) IN
    IF ~user.ok
    THEN /\ last' = Unauthorized(ep)
         /\ UNCHANGED <<usersFile, historyFile, now, tokens, nextId, pending, uploads,
                        unlinking, nextFile>>
    ELSE IF Rejects(ep, code, line) # ""
    THEN /\ last' = Response(ep, user.email, 400, Rejects(ep, code, line))
         /\ UNCHANGED <<usersFile, historyFile, now, tokens, nextId, pending, uploads,
                        unlinking, nextFile>>
    ELSE /\ Free # {}
         /\ Cardinality(InFlightOther) < MaxOther
         /\ pending' = [pending EXCEPT ![FreeSlot] =
                           [Idle EXCEPT !.ep = ep, !.email = user.email, !.stage = "gen"]]
         /\ UNCHANGED <<usersFile, historyFile, now, tokens, nextId, uploads, unlinking,
                        nextFile, last>>

(* callOpenRouter returned (ok) or threw (~ok) for the request of slot s *)
GenerateDone(s, ok) ==
    LET req == pending[s] IN
    /\ req.ep \in JsonEndpoints \cup ImageEndpoints
    /\ req.stage = "gen"
    /\ pending' = [pending EXCEPT ![s] = Idle]
    /\ last' = [Response(req.ep, req.email, IF ok THEN 200 ELSE 500,
                         IF ok THEN "result" ELSE FailMsg(req.ep))
                   EXCEPT !.file = req.file,
                          !.ocr = IF req.file = NoFile THEN "none" ELSE "ok"]
    /\ UNCHANGED <<usersFile, historyFile, now, tokens, nextId, uploads, unlinking,
                   nextFile>>

----------------------------------------------------------------------------
(* POST /convert-image, /optimize-image, /fill-image *)

Texts == {<<>>, <<" ">>, <<"x">>}

(* upload.single("file") stores the file part under uploads/ and only then *)
(* calls the handler; this is the handler up to the await of the OCR       *)
Upload(ep, token, hasFile) ==
    LET user == verifyToken(token, now)
        file == IF hasFile THEN nextFile + 1 ELSE NoFile
    IN
    /\ hasFile => nextFile < MaxFiles
    /\ nextFile' = IF hasFile THEN nextFile + 1 ELSE nextFile
    /\ uploads' = IF hasFile THEN uploads \cup {file} ELSE uploads
    /\ IF ~user.ok
       THEN /\ last' = [Unauthorized(ep) EXCEPT !.file = file]
            /\ UNCHANGED pending
       ELSE IF ~hasFile
       THEN /\ last' = Response(ep, user.email, 400, "No image uploaded")
            /\ UNCHANGED pending
       ELSE /\ Free # {}
            /\ Cardinality(InFlightOther) < MaxOther
            /\ pending' = [pending EXCEPT ![FreeSlot] =
                              [Idle EXCEPT !.ep = ep, !.email = user.email, !.stage = "ocr",
                                           !.file = file]]
            /\ UNCHANGED last
    /\ UNCHANGED <<usersFile, historyFile, now, tokens, nextId, unlinking>>

(* Tesseract.recognize returned text for the request of slot s: the unlink *)
(* is queued, an empty text is answered with 400, another goes on to the   *)
(* await of callOpenRouter                                                 *)
OcrDone(s, text) ==
    LET req == pending[s] IN
    /\ req.ep \in ImageEndpoints
    /\ req.stage = "ocr"
    /\ unlinking' = unlinking \cup {req.file}
    /\ IF Trim(text) = <<>>
       THEN /\ pending' = [pending EXCEPT ![s] = Idle]
            /\ last' = [Response(req.ep, req.email, 400, "No readable code found")
                           EXCEPT !.file = req.file, !.ocr = "ok"]
       ELSE /\ pending' = [pending EXCEPT ![s].stage = "gen"]
            /\ UNCHANGED last
    /\ UNCHANGED <<usersFile, historyFile, now, tokens, nextId, uploads, nextFile>>

(* Tesseract.recognize threw for the request of slot s: ocrFileAndDelete   *)
(* is left before its fs.unlink, and the handler's catch answers 500       *)
OcrFail(s) ==
    LET req == pending[s] IN
    /\ req.ep \in ImageEndpoints
    /\ req.stage = "ocr"
    /\ pending' = [pending EXCEPT ![s] = Idle]
    /\ last' = [Response(req.ep, req.email, 500, FailMsg(req.ep))
                   EXCEPT !.file = req.file, !.ocr = "threw"]
    /\ UNCHANGED <<usersFile, historyFile, now, tokens, nextId, uploads, unlinking,
                   nextFile>>

(* a queued fs.unlink is carried out *)
UnlinkDone(f) ==
    /\ f \in unlinking
    /\ unlinking' = unlinking \ {f}
    /\ uploads' = uploads \ {f}
    /\ UNCHANGED <<usersFile, historyFile, now, tokens, nextId, pending, nextFile, last>>

----------------------------------------------------------------------------

Init ==
    /\ usersFile \in {AbsentFile, JsonFile(<<>>)}
    /\ historyFile = JsonFile(<<>>)
    /\ now = 0
    /\ tokens = {}
    /\ nextId = 0
    /\ pending = [s \in 1..MaxInflight |-> Idle]
    /\ uploads = {}
    /\ unlinking = {}
    /\ nextFile = 0
    /\ last = Response("none", "", 0, "")

Next ==
    \/ \E e \in Emails, p \in RegPasswords \cup {NoPassword}, s \in Salts : Register(e, p, s)
    \/ \E e \in Emails, p \in Passwords \cup {NoPassword} : Login(e, p)
    \/ Tick
    \/ \E t \in Presentable : GetHistory(t)
    \/ \E t \in Presentable : DeleteHistory(t)
    \/ \E t \in Presentable, c \in Codes : Explain(t, c)
    \/ \E s \in 1..MaxInflight, ok \in BOOLEAN : ExplainDone(s, ok)

Spec == Init /\ [][Next]_vars

(* users.json stops being readable as a JSON array (truncated, edited by   *)
(* hand, permissions changed)                                              *)
CorruptUsersFile ==
    /\ usersFile.kind # "corrupt"
    /\ usersFile' = CorruptFile
    /\ UNCHANGED <<historyFile, now, tokens, nextId, pending, uploads, unlinking,
                   nextFile, last>>

(* user_history.json stops being readable as a JSON array *)
CorruptHistoryFile ==
    /\ historyFile.kind # "corrupt"
    /\ historyFile' = CorruptFile
    /\ UNCHANGED <<usersFile, now, tokens, nextId, pending, uploads, unlinking,
                   nextFile, last>>

(* the authentication and history routes with files that can go bad *)
NextFault ==
    \/ Next
    \/ CorruptUsersFile
    \/ CorruptHistoryFile

SpecFault == Init /\ [][NextFault]_vars

(* The routes that take a token, from the state that Spec reaches by the   *)
(* registration of a@x.com and its login at hour 0 (RoutesStart)           *)
InitRoutes ==
    /\ usersFile = JsonFile(<<[email |-> "a@x.com", password |-> hashSync("pw1", "s1")]>>)
    /\ historyFile = JsonFile(<<>>)
    /\ now = 0
    /\ tokens = {jwtSign("a@x.com", 0)}
    /\ nextId = 0
    /\ pending = [s \in 1..MaxInflight |-> Idle]
    /\ uploads = {}
    /\ unlinking = {}
    /\ nextFile = 0
    /\ last = [Response("POST /login", "a@x.com", 200, "") EXCEPT !.token = jwtSign("a@x.com", 0)]

RoutesStart == InitRoutes

NextRoutes ==
    \/ Tick
    \/ \E t \in Presentable : GetHistory(t)
    \/ \E t \in Presentable : DeleteHistory(t)
    \/ \E t \in Presentable, c \in Codes : Explain(t, c)
    \/ \E s \in 1..MaxInflight, ok \in BOOLEAN : ExplainDone(s, ok)
    \/ \E ep \in JsonEndpoints, t \in Presentable :
          \E b \in Bodies(ep) : Generate(ep, t, b[1], b[2])
    \/ \E s \in 1..MaxInflight, ok \in BOOLEAN : GenerateDone(s, ok)
    \/ \E ep \in ImageEndpoints, t \in Presentable, f \in BOOLEAN : Upload(ep, t, f)
    \/ \E s \in 1..MaxInflight, x \in Texts : OcrDone(s, x)
    \/ \E s \in 1..MaxInflight : OcrFail(s)
    \/ \E f \in 1..MaxFiles : UnlinkDone(f)

SpecRoutes == InitRoutes /\ [][NextRoutes]_vars

----------------------------------------------------------------------------
(* Claims *)

Emailed(data, email) == {i \in 1..Len(data) : data[i].email = email}

(* C1: a GET /history answered 200 for identity A carries exactly the      *)
(* stored records whose email is A, in stored order, and no record of      *)
(* another identity.                                                       *)
C1_ListForOwnOnly ==
    (last.op = "GET /history" /\ last.status = 200) =>
        /\ \A i \in 1..Len(last.history) : last.history[i].email = last.email
        /\ last.history = SelectSeq(historyFile.data, LAMBDA h : h.email = last.email)

(* a GET /history answered with records while another identity has some *)
C1_Witness ==
    /\ last.op = "GET /history"
    /\ last.status = 200
    /\ last.history # <<>>
    /\ \E i \in 1..Len(historyFile.data) : historyFile.data[i].email # last.email

(* C2: a DELETE /history with a valid token for identity A leaves no       *)
(* record of A and leaves the records of every other identity as they      *)
(* were, in the same order.                                                *)
C2_ClearForOwnOnly ==
    [][\A t \in Presentable :
          (last'.op = "DELETE /history" /\ DeleteHistory(t) /\ verifyToken(t, now).ok) =>
              /\ Emailed(historyFile'.data, verifyToken(t, now).email) = {}
              /\ SelectSeq(historyFile'.data, LAMBDA h : h.email # verifyToken(t, now).email)
                   = SelectSeq(historyFile.data, LAMBDA h : h.email # verifyToken(t, now).email)
              /\ Len(historyFile'.data)
                   = Len(historyFile.data)
                       - Cardinality(Emailed(historyFile.data, verifyToken(t, now).email))]_vars

(* a DELETE /history has removed a record and the record of another        *)
(* identity is still stored                                                *)
C2_Witness ==
    /\ last.op = "DELETE /history"
    /\ last.status = 200
    /\ historyFile.data # <<>>
    /\ Emailed(historyFile.data, last.email) = {}
    /\ nextId > Len(historyFile.data)

(* C3: on every endpoint that takes a token, a request whose token does    *)
(* not verify is answered 403 Unauthorized and changes nothing: no history *)
(* record added or removed, no request left waiting on the generation or   *)
(* OCR call, no file added to the upload directory.                        *)
C3_UnauthorizedHalts ==
    [][\A t \in Presentable :
          (/\ ~verifyToken(t, now).ok
           /\ \/ GetHistory(t)
              \/ DeleteHistory(t)
              \/ \E c \in Codes : Explain(t, c)
              \/ \E ep \in JsonEndpoints : \E b \in Bodies(ep) : Generate(ep, t, b[1], b[2])
              \/ \E ep \in ImageEndpoints, f \in BOOLEAN : Upload(ep, t, f))
          => /\ last'.status = 403
             /\ last'.msg = "Unauthorized"
             /\ UNCHANGED <<usersFile, historyFile, pending, uploads, unlinking>>]_vars

(* C4: once an image request that reached the OCR step has been answered,  *)
(* whether the OCR returned or threw, its temporary file is gone from the  *)
(* upload directory (or its fs.unlink is at least under way).              *)
C4_TempFileDeleted ==
    (last.op \in ImageEndpoints /\ last.ocr \in {"ok", "threw"}) =>
        (last.file \notin uploads \/ last.file \in unlinking)

Registered(file, email) ==
    file.kind = "json" /\ \E i \in 1..Len(file.data) : file.data[i].email = email

UniqueEmails(data) ==
    \A i, j \in 1..Len(data) : data[i].email = data[j].email => i = j

(* C5: registerUser on an email that users.json already holds answers      *)
(* "User already exists" and leaves the file as it was; after every step   *)
(* no two user records share an email.                                     *)
C5_RegisterUnique ==
    [][/\ \A e \in Emails, p \in RegPasswords \cup {NoPassword}, x \in Salts :
            (last'.op = "POST /register" /\ Registered(usersFile, e) /\ Register(e, p, x)) =>
                /\ last'.msg = "User already exists"
                /\ usersFile' = usersFile
       /\ UniqueEmails(usersFile'.data)]_vars

(* a registration was refused while both emails, equal up to case, are     *)
(* stored                                                                  *)
C5_Witness ==
    /\ last.op = "POST /register"
    /\ last.msg = "User already exists"
    /\ Len(usersFile.data) = Cardinality(Emails)

(* C6: the token of a successful login carries the login email; every      *)
(* token handed out verifies to its email at every hour before its issue   *)
(* hour plus 12 and to null at every hour after it, whatever was done in   *)
(* between.                                                                *)
C6_TokenLifetime ==
    /\ (last.op = "POST /login" /\ last.token # NoToken) =>
          (last.token.email = last.email /\ last.token \in tokens)
    /\ \A t \in tokens :
          /\ now < t.iat + TTL => verifyToken(t, now) = [ok |-> TRUE, email |-> t.email]
          /\ now > t.iat + TTL => verifyToken(t, now) = NoUser

(* one token is past its 12 hours while another, handed out later, is not *)
C6_Witness ==
    /\ \E t \in tokens : now > t.iat + TTL /\ ~verifyToken(t, now).ok
    /\ \E t \in tokens : t.iat > 0 /\ now < t.iat + TTL /\ verifyToken(t, now).ok

Matches(file, email, password) ==
    \E i \in 1..Len(readUsers(file)) :
        /\ readUsers(file)[i].email = email
        /\ password # NoPassword
        /\ compareSync(password, readUsers(file)[i].password)

Known(file, email) ==
    \E i \in 1..Len(readUsers(file)) : readUsers(file)[i].email = email

(* C7 as stated: loginUser hands out a token only for a stored email with  *)
(* a password that verifies, answers "User not found" for an email not     *)
(* stored and "Invalid password" for a stored email with any password that *)
(* does not verify, and in the error cases issues no token and leaves the  *)
(* stored users as they were.                                              *)
C7_LoginOutcomes ==
    [][\A e \in Emails, p \in Passwords \cup {NoPassword} :
          (last'.op = "POST /login" /\ Login(e, p)) =>
              /\ last'.token # NoToken <=> Matches(usersFile, e, p)
              /\ ~Known(usersFile, e) => last'.msg = "User not found"
              /\ (Known(usersFile, e) /\ ~Matches(usersFile, e, p)) =>
                     last'.msg = "Invalid password"
              /\ last'.token = NoToken =>
                     (tokens' = tokens /\ readUsers(usersFile') = readUsers(usersFile))]_vars

(* C7, amended: as above, but "Invalid password" is the answer only to a   *)
(* password string that does not verify; a request without a password is   *)
(* answered "Login failed" (bcrypt throws and loginUser catches it).       *)
C7_LoginOutcomesAmended ==
    [][\A e \in Emails, p \in Passwords \cup {NoPassword} :
          (last'.op = "POST /login" /\ Login(e, p)) =>
              /\ last'.token # NoToken <=> Matches(usersFile, e, p)
              /\ last'.token # NoToken => last'.token.email = e
              /\ ~Known(usersFile, e) => last'.msg = "User not found"
              /\ (Known(usersFile, e) /\ p # NoPassword /\ ~Matches(usersFile, e, p)) =>
                     last'.msg = "Invalid password"
              /\ (Known(usersFile, e) /\ p = NoPassword) => last'.msg = "Login failed"
              /\ last'.token = NoToken =>
                     (tokens' = tokens /\ readUsers(usersFile') = readUsers(usersFile))]_vars

(* a login without a password on a stored email was answered "Login failed" *)
C7_Witness ==
    /\ last.op = "POST /login"
    /\ last.msg = "Login failed"
    /\ last.token = NoToken
    /\ Known(usersFile, last.email)

(* C8: when callOpenRouter throws for a POST /explain request, the request *)
(* is answered 500 "Failed to generate explanation", it is not put back to *)
(* wait on another call, and user_history.json is left as it was; a        *)
(* history record is added only by a POST /explain whose call returned.    *)
C8_NoRecordOnFailure ==
    [][/\ \A s \in 1..MaxInflight :
            (pending[s].ep = "POST /explain" /\ ExplainDone(s, FALSE)) =>
                /\ last'.op = "POST /explain"
                /\ last'.status = 500
                /\ last'.msg = "Failed to generate explanation"
                /\ pending'[s] = Idle
                /\ historyFile' = historyFile
       /\ Ids(historyFile'.data) \ Ids(historyFile.data) # {} =>
            \E s \in 1..MaxInflight : ExplainDone(s, TRUE)]_vars

(* a POST /explain was answered 500 while the store held a record *)
C8_Witness ==
    /\ last.op = "POST /explain"
    /\ last.status = 500
    /\ historyFile.data # <<>>

C10_DegradeToEmpty ==
    [][/\ \A e \in Emails, p \in RegPasswords, x \in Salts :
            (Register(e, p, x) /\ usersFile.kind = "corrupt") =>
                last'.msg = "User registered successfully"
       /\ \A e \in Emails, p \in Passwords :
            (Login(e, p) /\ usersFile.kind = "corrupt") => last'.msg = "User not found"
       /\ \A t \in Presentable :
            (verifyToken(t, now).ok /\ historyFile.kind = "corrupt") =>
                /\ GetHistory(t) => (last'.status = 200 /\ last'.history = <<>>)
                /\ DeleteHistory(t) => last'.status = 200
       /\ \A s \in 1..MaxInflight :
            (ExplainDone(s, TRUE) /\ historyFile.kind = "corrupt") => last'.status = 200]_vars

NewestFirst(data) ==
    \A i, j \in 1..Len(data) : i < j => data[i].createdAt >= data[j].createdAt

DistinctIds(data) ==
    \A i, j \in 1..Len(data) : data[i].id = data[j].id => i = j

(* C11: after every step the stored history is newest-first (createdAt     *)
(* non-increasing from the first record on) with pairwise distinct ids; a  *)
(* POST /explain answered 200 puts exactly one new record in front of the  *)
(* records stored before, which stay as they were and in their order, and  *)
(* the new record carries the email of the token the request came with.    *)
C11_NewestFirst ==
    [][/\ NewestFirst(historyFile'.data)
       /\ DistinctIds(historyFile'.data)
       /\ \A t \in Presentable, c \in Codes :
            (pending' # pending /\ Explain(t, c)) =>
                \E s \in 1..MaxInflight :
                    /\ pending[s] = Idle
                    /\ pending'[s].ep = "POST /explain"
                    /\ pending'[s].email = t.email
                    /\ t \in tokens
       /\ \A s \in 1..MaxInflight :
            (last'.status = 200 /\ pending[s].ep = "POST /explain" /\ ExplainDone(s, TRUE)) =>
                /\ Len(historyFile'.data) = Len(historyFile.data) + 1
                /\ Tail(historyFile'.data) = historyFile.data
                /\ Head(historyFile'.data).email = pending[s].email
                /\ Head(historyFile'.data).id \notin Ids(historyFile.data)]_vars

(* a POST /explain was answered 200 and its record stands in front of an   *)
(* older one of another identity                                           *)
C11_Witness ==
    /\ last.op = "POST /explain"
    /\ last.status = 200
    /\ Len(historyFile.data) = 2
    /\ historyFile.data[1].email = last.email
    /\ historyFile.data[2].email # last.email
    /\ historyFile.data[1].createdAt > historyFile.data[2].createdAt

(* C12: with tokens coming from loginUser only, every stored history       *)
(* record carries the email of a stored user record, in every reachable    *)
(* state; and no step removes or changes a stored user record.             *)
C12_HistoryEmailsRegistered ==
    [][/\ \A i \in 1..Len(historyFile'.data) :
            \E j \in 1..Len(readUsers(usersFile')) :
                readUsers(usersFile')[j].email = historyFile'.data[i].email
       /\ \A j \in 1..Len(readUsers(usersFile)) :
            /\ j <= Len(readUsers(usersFile'))
            /\ readUsers(usersFile')[j] = readUsers(usersFile)[j]]_vars

(* records of two identities are stored, both registered, and the token of *)
(* the older record's identity has run out since                           *)
C12_Witness ==
    /\ Len(historyFile.data) = 2
    /\ historyFile.data[1].email # historyFile.data[2].email
    /\ Len(readUsers(usersFile)) = 2
    /\ \E t \in tokens : t.email = historyFile.data[2].email /\ ~verifyToken(t, now).ok
====
